---------------------------- MODULE Spec2Model ----------------------------
(***************************************************************************)
(* The chat-response ingestion of src/src/pages/AIChat.tsx: sendMessage    *)
(* and streamChat, as a state machine.                                     *)
(*                                                                         *)
(* Text is a sequence of units.  A unit is one character ("a", " ", ":",   *)
(* "\r", "\n") or a fixed run of characters that the code only ever        *)
(* handles as a whole once a line is complete:                             *)
(*   "data: "  the six characters  data:  and a space                      *)
(*   "data:"   the five characters  data:                                  *)
(*   "{"       {"choices":[{"delta":{"content":"                           *)
(*   "}"       "}}]}                                                       *)
(*   "O"       {"choices":[{"delta":{}}]}   (an envelope with no content)  *)
(*   "[DONE]"  the six characters  [DONE]                                  *)
(*   "e"       the two-byte character U+00E9; on the wire it is the two    *)
(*             bytes "E1" "E2"; "?" is U+FFFD, what TextDecoder gives for  *)
(*             a byte sequence that is not UTF-8.                          *)
(* The transport may cut the byte sequence between any two units.          *)
(***************************************************************************)
EXTENDS Integers, Sequences, FiniteSets, TLC

\* The most bytes the server sends in a session of one turn.
MaxBytes == 13
\* The most turns of a longer session, and the most bytes the server sends
\* in it.
MaxTurns == 2
MaxTurnBytes == 10
\* The most bytes the server sends in a session checked for progress.
MaxLiveBytes == 5

VARIABLES
    messages,         \* useState<Message[]>                     (line 16)
    isLoading,        \* useState(false)                         (line 18)
    toasts,           \* the descriptions this sendMessage call gave toast()
    pc,               \* where the running sendMessage call is suspended
    newMessages,      \* sendMessage's const newMessages         (line 134)
    resp,             \* the bytes of the response body
    pos,              \* how many of them the reader has delivered
    decoderPending,   \* bytes TextDecoder holds back ({stream: true})
    textBuffer,       \* streamChat's textBuffer                 (line 56)
    assistantContent, \* streamChat's assistantContent           (line 57)
    preTurn,          \* history: messages when sendMessage was called
    response,         \* history: the status and body fetch resolved with
    respLines,        \* history: the lines the server chose for resp
    stripLast,        \* history: the server left out the last terminator
    outcome,          \* history: how the last streamChat call ended
    sentinelSeen,     \* history: the main loop interpreted a [DONE] line
    cutInside,        \* history: a chunk ended inside a payload, a
                      \*   character or a CR LF pair
    accepted,         \* history: deltas accepted in this turn
    notifications,    \* history: for each setMessages call of streamChat in
                      \*   this turn, the delta and the messages it gave
    turnsLeft,        \* the turns the session still has
    bytesLeft         \* the bytes the server may still send in the session

vars == <<messages, isLoading, toasts, pc, newMessages, resp, pos,
          decoderPending, textBuffer, assistantContent, preTurn, response,
          respLines, stripLast,
          outcome, sentinelSeen, cutInside, accepted, notifications,
          turnsLeft, bytesLeft>>

-----------------------------------------------------------------------------
(* Strings *)

Whitespace == {" ", "\r", "\n"}

\* The number of characters of a unit.
Width(u) ==
    CASE u = "data: " -> 6
      [] u = "data:"  -> 5
      [] u = "[DONE]" -> 6
      [] u = "{"      -> 33
      [] u = "}"      -> 5
      [] u = "O"      -> 26
      [] OTHER        -> 1

\* s.indexOf("\n"), 1-based; 0 where JavaScript gives -1.
RECURSIVE IndexFrom(_, _)
IndexFrom(s, i) ==
    IF i > Len(s) THEN 0
    ELSE IF s[i] = "\n" THEN i
    ELSE IndexFrom(s, i + 1)

IndexOfNewline(s) == IndexFrom(s, 1)

\* s.trim()
RECURSIVE TrimStart(_)
TrimStart(s) ==
    IF s # <<>> /\ Head(s) \in Whitespace THEN TrimStart(Tail(s)) ELSE s

RECURSIVE TrimEnd(_)
TrimEnd(s) ==
    IF s # <<>> /\ s[Len(s)] \in Whitespace
    THEN TrimEnd(SubSeq(s, 1, Len(s) - 1))
    ELSE s

Trim(s) == TrimEnd(TrimStart(s))

\* if (line.endsWith("\r")) line = line.slice(0, -1)
StripCR(line) ==
    IF line # <<>> /\ line[Len(line)] = "\r"
    THEN SubSeq(line, 1, Len(line) - 1)
    ELSE line

StartsWithColon(line) == line # <<>> /\ Head(line) = ":"

\* line.startsWith("data: ")
StartsWithData(line) == line # <<>> /\ Head(line) = "data: "

\* s.slice(n): s without its first n characters.
RECURSIVE SliceFrom(_, _)
SliceFrom(s, n) ==
    IF n <= 0 \/ s = <<>> THEN s
    ELSE SliceFrom(Tail(s), n - Width(Head(s)))

\* s.split("\n")
RECURSIVE Split(_)
Split(s) ==
    LET i == IndexOfNewline(s) IN
    IF i = 0 THEN <<s>>
    ELSE <<SubSeq(s, 1, i - 1)>> \o Split(SubSeq(s, i + 1, Len(s)))

-----------------------------------------------------------------------------
(* TextDecoder and JSON.parse *)

\* decoder.decode(value, {stream: true}): the text of held \o bytes, an
\* incomplete character at the end held back for the next call.
RECURSIVE DecodeBytes(_)
DecodeBytes(b) ==
    IF b = <<>> THEN [text |-> <<>>, held |-> <<>>]
    ELSE IF Head(b) = "E1"
    THEN IF Len(b) = 1 THEN [text |-> <<>>, held |-> b]
         ELSE IF b[2] = "E2"
         THEN LET r == DecodeBytes(SubSeq(b, 3, Len(b)))
              IN  [r EXCEPT !.text = <<"e">> \o @]
         ELSE LET r == DecodeBytes(Tail(b))
              IN  [r EXCEPT !.text = <<"?">> \o @]
    ELSE LET r == DecodeBytes(Tail(b))
         IN  [r EXCEPT !.text = <<(IF Head(b) = "E2" THEN "?" ELSE Head(b))>> \o @]

\* decoder.decode(value): every chunk decoded on its own, an incomplete
\* character at its end replaced.
DecodeNoStream(held, value) ==
    LET r == DecodeBytes(value)
    IN  [text |-> r.text \o [i \in 1..Len(r.held) |-> "?"], held |-> <<>>]

Decode(held, value) == DecodeBytes(held \o value)

\* The characters a JSON string literal may hold unescaped.
StringChar(u) == u \notin {"{", "}", "O", "\r", "\n"}

\* JSON.parse(jsonStr) followed by parsed.choices?.[0]?.delta?.content:
\* ok is FALSE where JSON.parse throws; content is "undefined" where the
\* envelope has no content field.
JsonParse(jsonStr) ==
    IF jsonStr = <<"O">> THEN [ok |-> TRUE, content |-> "undefined"]
    ELSE IF /\ Len(jsonStr) >= 2
            /\ jsonStr[1] = "{"
            /\ jsonStr[Len(jsonStr)] = "}"
            /\ \A i \in 2..(Len(jsonStr) - 1) : StringChar(jsonStr[i])
    THEN [ok |-> TRUE, content |-> SubSeq(jsonStr, 2, Len(jsonStr) - 1)]
    ELSE [ok |-> FALSE, content |-> "undefined"]

\* if (content !== undefined): the empty string passes.
TruthyNotUndefined(content) == content # "undefined"

\* if (content): neither undefined nor the empty string.
Truthy(content) == content # "undefined" /\ content # <<>>

-----------------------------------------------------------------------------
(* The conversation *)

UserMessage(text) == [role |-> "user", content |-> text]

\* The updater streamChat passes to setMessages after a delta: the trailing
\* assistant message gets the accumulated content, or one is appended.
SetMessagesAlwaysAppend(prev, content) ==
    Append(prev, [role |-> "assistant", content |-> content])

\* The updater without its test of the last message's role: the last
\* message is replaced whoever wrote it.
SetMessagesReplaceLast(prev, content) ==
    IF prev # <<>>
    THEN [prev EXCEPT ![Len(prev)] = [role |-> "assistant", content |-> content]]
    ELSE Append(prev, [role |-> "assistant", content |-> content])

SetMessagesDelta(prev, content) ==
    IF prev # <<>> /\ prev[Len(prev)].role = "assistant"
    THEN [prev EXCEPT ![Len(prev)].content = content]
    ELSE Append(prev, [role |-> "assistant", content |-> content])

\* The updater given the delta instead of the accumulated content.
AcceptDeltaLatestOnly(st, content) ==
    IF Truthy(content)
    THEN LET msgs == SetMessagesDelta(st.msgs, content)
         IN  [st EXCEPT !.content = @ \o content,
                        !.msgs = msgs,
                        !.accepted = @ + 1,
                        !.notes = Append(@, [delta |-> content,
                                             msgs |-> msgs])]
    ELSE st

\* assistantContent = content in place of assistantContent += content.
AcceptDeltaAssign(st, content) ==
    IF Truthy(content)
    THEN LET msgs == SetMessagesDelta(st.msgs, content)
         IN  [st EXCEPT !.content = content,
                        !.msgs = msgs,
                        !.accepted = @ + 1,
                        !.notes = Append(@, [delta |-> content,
                                             msgs |-> msgs])]
    ELSE st

\* if (content) { assistantContent += content; setMessages(...) }
\* The updater is applied here, with the content accumulated so far.  React
\* runs queued updaters in call order and each reads assistantContent when
\* it runs; the content only grows, so once the queue is empty the messages
\* state is the one computed here.
AcceptDelta(st, content) ==
    IF Truthy(content)
    THEN LET msgs == SetMessagesDelta(st.msgs, st.content \o content)
         IN  [st EXCEPT !.content = @ \o content,
                        !.msgs = msgs,
                        !.accepted = @ + 1,
                        !.notes = Append(@, [delta |-> content,
                                             msgs |-> msgs])]
    ELSE st

-----------------------------------------------------------------------------
(* streamChat: the read loop's body and the final flush.  st is the record  *)
(* of what they change: buf (textBuffer), content (assistantContent), msgs *)
(* (the messages state), threw (the message of the error the loop lets     *)
(* escape, "none" if none), and the histories sentinel, accepted and notes *)
(* (notifications).                                                        *)

\* if (line.startsWith(":") || line.trim() === "") continue;
\* if (!line.startsWith("data: ")) continue;
LineSkippedBlankOnly(line) == Trim(line) = <<>>

LineSkipped(line) ==
    \/ StartsWithColon(line)
    \/ Trim(line) = <<>>
    \/ ~StartsWithData(line)

\* const jsonStr = line.slice(6).trim()
Payload(line) == Trim(SliceFrom(line, 6))

RECURSIVE InnerLoop(_)

\* if (jsonStr === "[DONE]") break;   leaves the inner while loop only.
OnSentinel(st, rest) == [st EXCEPT !.buf = rest, !.sentinel = TRUE]

\* The line put back without its newline.
OnParseErrorNoNewline(st, line, rest) == [st EXCEPT !.buf = line \o rest]

\* No catch: the SyntaxError leaves the loop.
OnParseErrorThrow(st, line, rest) ==
    [st EXCEPT !.buf = rest, !.threw = "Unexpected end of JSON input"]

\* catch { textBuffer = line + "\n" + textBuffer; break; }
OnParseError(st, line, rest) == [st EXCEPT !.buf = line \o <<"\n">> \o rest]

\* while ((newlineIndex = textBuffer.indexOf("\n")) !== -1) { ... }
InnerLoop(st) ==
    LET i == IndexOfNewline(st.buf) IN
    IF i = 0 THEN st
    ELSE LET line == StripCR(SubSeq(st.buf, 1, i - 1))
             rest == SubSeq(st.buf, i + 1, Len(st.buf))
         IN  IF LineSkipped(line) THEN InnerLoop([st EXCEPT !.buf = rest])
             ELSE IF Payload(line) = <<"[DONE]">> THEN OnSentinel(st, rest)
             ELSE LET parsed == JsonParse(Payload(line)) IN
                  IF parsed.ok
                  THEN InnerLoop(AcceptDelta([st EXCEPT !.buf = rest],
                                             parsed.content))
                  ELSE OnParseError(st, line, rest)

\* The pass works on a copy of the buffer: the lines it interpreted stay in
\* textBuffer.
OnChunkKeepsLines(st, text) ==
    [InnerLoop([st EXCEPT !.buf = @ \o text]) EXCEPT !.buf = st.buf \o text]

\* textBuffer += decoder.decode(value, {stream: true}), then the inner loop.
OnChunk(st, text) == InnerLoop([st EXCEPT !.buf = @ \o text])

\* One raw of the final flush's for loop.
FlushLine(st, raw0) ==
    LET raw == StripCR(raw0) IN
    IF raw0 = <<>> \/ LineSkipped(raw) THEN st
    ELSE IF Payload(raw) = <<"[DONE]">> THEN st
    ELSE LET parsed == JsonParse(Payload(raw)) IN
         IF parsed.ok THEN AcceptDelta(st, parsed.content) ELSE st

RECURSIVE FlushLines(_, _)
FlushLines(st, raws) ==
    IF raws = <<>> THEN st
    ELSE FlushLines(FlushLine(st, Head(raws)), Tail(raws))

\* streamChat with no final flush.
FinalFlushSkipped(st) == st

\* if (textBuffer.trim()) { for (let raw of textBuffer.split("\n")) ... }
FinalFlush(st) ==
    IF Trim(st.buf) # <<>> THEN FlushLines(st, Split(st.buf)) ELSE st

-----------------------------------------------------------------------------
(* The server's answers *)

LineNames == {"deltaA", "deltaE", "empty", "nocontent", "done", "bad",
              "comment", "blank"}

\* What a line carries, terminator aside.
LineBody(name) ==
    CASE name = "deltaA"    -> <<"data: ", "{", "a", "}">>
      [] name = "deltaE"    -> <<"data: ", "{", "E1", "E2", "}">>
      [] name = "empty"     -> <<"data: ", "{", "}">>
      [] name = "nocontent" -> <<"data: ", "O">>
      [] name = "done"      -> <<"data: ", "[DONE]">>
      [] name = "bad"       -> <<"data: ", "{", "a">>
      [] name = "comment"   -> <<":", "data:", "{", "a", "}">>
      [] name = "blank"     -> <<>>

LineTerminator(name) ==
    IF name \in {"deltaE", "blank"} THEN <<"\r", "\n">> ELSE <<"\n">>

LineBytes(name) == LineBody(name) \o LineTerminator(name)

\* The bytes of a response of these lines; strip: the last line has no
\* terminator.
RECURSIVE WireBytes(_, _)
WireBytes(lines, strip) ==
    IF lines = <<>> THEN <<>>
    ELSE IF Len(lines) = 1 /\ strip THEN LineBody(Head(lines))
    ELSE LineBytes(Head(lines)) \o WireBytes(Tail(lines), strip)

\* The sequences of lines that take at most n bytes.
RECURSIVE LineSeqs(_)
LineSeqs(n) ==
    {<<>>} \cup UNION {{<<l>> \o t : t \in LineSeqs(n - Len(LineBytes(l)))} :
                       l \in {x \in LineNames : Len(LineBytes(x)) <= n}}

\* The responses of at most n bytes.
Responses(n) ==
    {r \in [lines : LineSeqs(n + 2), strip : BOOLEAN] :
        /\ Len(WireBytes(r.lines, r.strip)) <= n
        /\ r.strip => r.lines # <<>>}

Statuses == {200, 429, 402, 500}

\* The body of a non-success response: JSON or not, and its "error" field.
ErrorBodies ==
    {[json |-> TRUE, error |-> "slow down"],
     [json |-> TRUE, error |-> ""],
     [json |-> TRUE, error |-> "undefined"],
     [json |-> FALSE, error |-> "undefined"]}

\* An ok response's body is not JSON with an "error" field; status 0: fetch
\* has not resolved.
NoBody == [json |-> FALSE, error |-> "undefined"]
NoResponse == [status |-> 0, stream |-> FALSE, body |-> NoBody]

\* await resp.json() with no catch: the rejection of a body that is not JSON
\* is what streamChat throws.
RespJsonNoCatch(body) ==
    IF body.json THEN body.error ELSE "Unexpected token < in JSON"

\* await resp.json().catch(() => ({ error: "Request failed" }))
RespJson(body) == IF body.json THEN body.error ELSE "Request failed"

\* The body's error text first, the status after it.
StatusErrorBodyFirst(status, body) ==
    IF RespJson(body) \notin {"", "undefined"} THEN RespJson(body)
    ELSE IF status = 429
    THEN "Rate limit exceeded. Please wait a moment and try again."
    ELSE IF status = 402
    THEN "AI usage limit reached. Please add credits to continue."
    ELSE "Failed to get response"

\* The message of the Error thrown for a response that is not ok.
StatusError(status, body) ==
    IF status = 429
    THEN "Rate limit exceeded. Please wait a moment and try again."
    ELSE IF status = 402
    THEN "AI usage limit reached. Please add credits to continue."
    ELSE IF RespJson(body) \notin {"", "undefined"} THEN RespJson(body)
    ELSE "Failed to get response"

\* What a rejected fetch() or reader.read() rejects with.
Rejections == {[isError |-> TRUE, message |-> "network error"]}

\* error instanceof Error ? error.message : "Failed to send message"
Description(error) ==
    IF error.isError THEN error.message ELSE "Failed to send message"

Inputs == {<<"q">>, <<" ", "q">>, <<" ">>}

-----------------------------------------------------------------------------
(* sendMessage and the steps of its streamChat call *)

Constructed ==
    /\ messages = <<>>
    /\ isLoading = FALSE
    /\ toasts = <<>>
    /\ pc = "idle"
    /\ newMessages = <<>>
    /\ resp = <<>>
    /\ pos = 0
    /\ decoderPending = <<>>
    /\ textBuffer = <<>>
    /\ assistantContent = <<>>
    /\ preTurn = <<>>
    /\ response = NoResponse
    /\ respLines = <<>>
    /\ stripLast = FALSE
    /\ outcome = "none"
    /\ sentinelSeen = FALSE
    /\ cutInside = FALSE
    /\ accepted = 0
    /\ notifications = <<>>

\* A session of one turn, with a long response.
Init ==
    /\ Constructed
    /\ turnsLeft = 1
    /\ bytesLeft = MaxBytes

\* A session of several turns, with short responses.
InitTurns ==
    /\ Constructed
    /\ turnsLeft = MaxTurns
    /\ bytesLeft = MaxTurnBytes

streamVars == <<resp, pos, decoderPending, textBuffer, assistantContent,
                respLines, stripLast, sentinelSeen, cutInside, accepted,
                notifications>>

turnVars == <<newMessages, preTurn, turnsLeft, bytesLeft>>

\* sendMessage without the isLoading half of its guard.
SendMessageWhileLoading(input) ==
    /\ turnsLeft > 0
    /\ IF Trim(input) = <<>>
       THEN UNCHANGED vars
       ELSE /\ preTurn' = messages
            /\ response' = NoResponse
            /\ newMessages' = Append(messages, UserMessage(Trim(input)))
            /\ messages' = newMessages'
            /\ isLoading' = TRUE
            /\ pc' = "fetch"
            /\ toasts' = <<>>
            /\ outcome' = "pending"
            /\ turnsLeft' = turnsLeft - 1
            /\ resp' = <<>>
            /\ pos' = 0
            /\ decoderPending' = <<>>
            /\ textBuffer' = <<>>
            /\ assistantContent' = <<>>
            /\ respLines' = <<>>
            /\ stripLast' = FALSE
            /\ sentinelSeen' = FALSE
            /\ cutInside' = FALSE
            /\ accepted' = 0
            /\ notifications' = <<>>
            /\ UNCHANGED bytesLeft

\* assistantContent kept across turns (a variable of the component, not a
\* local of streamChat).
SendMessageKeepsContent(input) ==
    /\ turnsLeft > 0
    /\ IF Trim(input) = <<>> \/ isLoading
       THEN UNCHANGED vars
       ELSE /\ preTurn' = messages
            /\ response' = NoResponse
            /\ newMessages' = Append(messages, UserMessage(Trim(input)))
            /\ messages' = newMessages'
            /\ isLoading' = TRUE
            /\ pc' = "fetch"
            /\ toasts' = <<>>
            /\ outcome' = "pending"
            /\ turnsLeft' = turnsLeft - 1
            /\ resp' = <<>>
            /\ pos' = 0
            /\ decoderPending' = <<>>
            /\ textBuffer' = <<>>
            /\ respLines' = <<>>
            /\ stripLast' = FALSE
            /\ sentinelSeen' = FALSE
            /\ cutInside' = FALSE
            /\ accepted' = 0
            /\ notifications' = <<>>
            /\ UNCHANGED <<bytesLeft, assistantContent>>

\* sendMessage up to its await of fetch.
SendMessage(input) ==
    /\ turnsLeft > 0
    /\ IF Trim(input) = <<>> \/ isLoading
       THEN UNCHANGED vars
       ELSE /\ preTurn' = messages
            /\ response' = NoResponse
            /\ newMessages' = Append(messages, UserMessage(Trim(input)))
            /\ messages' = newMessages'
            /\ isLoading' = TRUE
            /\ pc' = "fetch"
            /\ toasts' = <<>>
            /\ outcome' = "pending"
            /\ turnsLeft' = turnsLeft - 1
            /\ resp' = <<>>
            /\ pos' = 0
            /\ decoderPending' = <<>>
            /\ textBuffer' = <<>>
            /\ assistantContent' = <<>>
            /\ respLines' = <<>>
            /\ stripLast' = FALSE
            /\ sentinelSeen' = FALSE
            /\ cutInside' = FALSE
            /\ accepted' = 0
            /\ notifications' = <<>>
            /\ UNCHANGED bytesLeft

\* The catch without its setMessages(newMessages).
CatchNoRollback(description) ==
    /\ toasts' = Append(toasts, description)
    /\ isLoading' = FALSE
    /\ pc' = "idle"
    /\ outcome' = "threw"
    /\ UNCHANGED <<messages, turnVars>>

\* setIsLoading(false) as the last statement of the try, not in a finally:
\* the catch leaves the flag set.
CatchLeavesLoading(description) ==
    /\ toasts' = Append(toasts, description)
    /\ messages' = newMessages
    /\ pc' = "idle"
    /\ outcome' = "threw"
    /\ UNCHANGED <<isLoading, turnVars>>

\* The catch putting back the conversation sendMessage was called with,
\* without the user's message.
CatchDropsUserMessage(description) ==
    /\ toasts' = Append(toasts, description)
    /\ messages' = preTurn
    /\ isLoading' = FALSE
    /\ pc' = "idle"
    /\ outcome' = "threw"
    /\ UNCHANGED turnVars

\* sendMessage's catch and finally, for an error with this description.
Catch(description) ==
    /\ toasts' = Append(toasts, description)
    /\ messages' = newMessages
    /\ isLoading' = FALSE
    /\ pc' = "idle"
    /\ outcome' = "threw"
    /\ UNCHANGED turnVars

\* fetch rejects.
FetchFail(error) ==
    /\ pc = "fetch"
    /\ Catch(Description(error))
    /\ UNCHANGED <<streamVars, response>>

\* streamChat without its if (!resp.ok): the body of a response that is not
\* ok is read as the stream (it holds no data line).
RespondErrorNoThrow(status, body) ==
    /\ pc = "fetch"
    /\ status \notin 200..299
    /\ response' = [status |-> status, stream |-> FALSE, body |-> body]
    /\ pc' = "read"
    /\ UNCHANGED <<messages, isLoading, toasts, outcome, turnVars, streamVars>>

\* fetch resolves with a response that is not ok.
RespondError(status, body) ==
    /\ pc = "fetch"
    /\ status \notin 200..299
    /\ response' = [status |-> status, stream |-> FALSE, body |-> body]
    /\ Catch(StatusError(status, body))
    /\ UNCHANGED streamVars

\* if (!resp.body) return: a response with no body ends the turn silently.
RespondNoBodyReturns ==
    /\ pc = "fetch"
    /\ response' = [status |-> 200, stream |-> FALSE, body |-> NoBody]
    /\ isLoading' = FALSE
    /\ pc' = "idle"
    /\ outcome' = "returned"
    /\ UNCHANGED <<messages, toasts, turnVars, streamVars>>

\* fetch resolves with an ok response that has no body.
RespondNoBody ==
    /\ pc = "fetch"
    /\ response' = [status |-> 200, stream |-> FALSE, body |-> NoBody]
    /\ Catch("No response body")
    /\ UNCHANGED streamVars

\* fetch resolves with an ok response; streamChat goes on to its first read.
RespondStream(r) ==
    /\ pc = "fetch"
    /\ response' = [status |-> 200, stream |-> TRUE, body |-> NoBody]
    /\ respLines' = r.lines
    /\ stripLast' = r.strip
    /\ resp' = WireBytes(r.lines, r.strip)
    /\ bytesLeft' = bytesLeft - Len(resp')
    /\ pc' = "read"
    /\ UNCHANGED <<messages, isLoading, toasts, newMessages, preTurn, pos,
                   decoderPending, textBuffer, assistantContent, outcome,
                   sentinelSeen, cutInside, accepted, notifications,
                   turnsLeft>>

\* A chunk that ends after byte p of r ends inside a payload, inside a
\* character or between CR and LF.
CutInside(r, p) ==
    /\ 0 < p
    /\ p < Len(r)
    /\ \/ r[p] = "\r" /\ r[p + 1] = "\n"
       \/ r[p] = "E1"
       \/ r[p] = "{"
       \/ r[p + 1] = "}"

\* The locals of streamChat and the messages state, as one record.
LoopState ==
    [buf |-> textBuffer, content |-> assistantContent, msgs |-> messages,
     threw |-> "none", sentinel |-> sentinelSeen, accepted |-> accepted,
     notes |-> notifications]

\* reader.read() resolves with a chunk of n bytes: one pass of the loop
\* body, then the next read; an error the pass lets escape goes to
\* sendMessage's catch.
ReadChunk(n) ==
    /\ pc = "read"
    /\ pos + n <= Len(resp)
    /\ \E d \in {Decode(decoderPending, SubSeq(resp, pos + 1, pos + n))} :
       \E st \in {OnChunk(LoopState, d.text)} :
          /\ decoderPending' = d.held
          /\ textBuffer' = st.buf
          /\ assistantContent' = st.content
          /\ sentinelSeen' = st.sentinel
          /\ accepted' = st.accepted
          /\ notifications' = st.notes
          /\ IF st.threw = "none"
             THEN /\ messages' = st.msgs
                  /\ UNCHANGED <<isLoading, toasts, pc, outcome>>
             ELSE Catch(st.threw)
    /\ pos' = pos + n
    /\ cutInside' = (cutInside \/ CutInside(resp, pos + n))
    /\ UNCHANGED <<turnVars, response, resp, respLines, stripLast>>

\* streamChat run on a body that arrives as one chunk (as no chunk, when it
\* is empty), from a conversation msgs.
WholeRun(msgs, bytes) ==
    LET st == [buf |-> <<>>, content |-> <<>>, msgs |-> msgs,
               threw |-> "none", sentinel |-> FALSE, accepted |-> 0,
               notes |-> <<>>]
    IN  FinalFlush(IF bytes = <<>> THEN st
                   ELSE OnChunk(st, Decode(<<>>, bytes).text))

\* reader.read() resolves with done, and a stream that ended with no [DONE]
\* line interpreted is an error.
ReadDoneRequiresSentinel ==
    /\ pc = "read"
    /\ pos = Len(resp)
    /\ IF sentinelSeen
       THEN /\ \E st \in {FinalFlush(LoopState)} :
                  /\ assistantContent' = st.content
                  /\ messages' = st.msgs
                  /\ accepted' = st.accepted
                  /\ notifications' = st.notes
            /\ isLoading' = FALSE
            /\ pc' = "idle"
            /\ outcome' = "returned"
            /\ UNCHANGED <<turnVars, toasts>>
       ELSE /\ Catch("Stream ended without [DONE]")
            /\ UNCHANGED <<assistantContent, accepted, notifications>>
    /\ UNCHANGED <<response, resp, pos, decoderPending, textBuffer, respLines,
                   stripLast, sentinelSeen, cutInside>>

\* reader.read() resolves with done: the final flush, the return, finally.
ReadDone ==
    /\ pc = "read"
    /\ pos = Len(resp)
    /\ \E st \in {FinalFlush(LoopState)} :
          /\ assistantContent' = st.content
          /\ messages' = st.msgs
          /\ accepted' = st.accepted
          /\ notifications' = st.notes
    /\ isLoading' = FALSE
    /\ pc' = "idle"
    /\ outcome' = "returned"
    /\ UNCHANGED <<turnVars, response, toasts, resp, pos, decoderPending,
                   textBuffer, respLines, stripLast, sentinelSeen, cutInside>>

\* A rejected read caught inside the loop: the error is shown and the loop
\* goes on to the next read.
ReadFailKeepsReading(error) ==
    /\ pc = "read"
    /\ toasts' = Append(toasts, Description(error))
    /\ outcome' = "threw"
    /\ UNCHANGED <<messages, isLoading, pc, turnVars, streamVars, response>>

\* reader.read() rejects.
ReadFail(error) ==
    /\ pc = "read"
    /\ Catch(Description(error))
    /\ UNCHANGED <<streamVars, response>>

Next ==
    \/ \E input \in Inputs : SendMessage(input)
    \/ \E error \in Rejections : FetchFail(error)
    \/ \E status \in Statuses, body \in ErrorBodies : RespondError(status, body)
    \/ RespondNoBody
    \/ /\ pc = "fetch"
       /\ \E r \in Responses(bytesLeft) : RespondStream(r)
    \/ \E n \in 1..(Len(resp) - pos) : ReadChunk(n)
    \/ ReadDone
    \/ \E error \in Rejections : ReadFail(error)

Spec == Init /\ [][Next]_vars

SpecTurns == InitTurns /\ [][Next]_vars

\* The steps the transport takes: fetch settles, a read settles.
Transport ==
    \/ \E error \in Rejections : FetchFail(error)
    \/ \E status \in Statuses, body \in ErrorBodies : RespondError(status, body)
    \/ RespondNoBody
    \/ /\ pc = "fetch"
       /\ \E r \in Responses(bytesLeft) : RespondStream(r)
    \/ \E n \in 1..(Len(resp) - pos) : ReadChunk(n)
    \/ ReadDone
    \/ \E error \in Rejections : ReadFail(error)

\* A session of several turns, with very short responses.
InitLive ==
    /\ Constructed
    /\ turnsLeft = MaxTurns
    /\ bytesLeft = MaxLiveBytes

\* Several turns, with a transport that settles every promise awaited: fetch
\* resolves or rejects, and each read gives a chunk, done or a rejection.
SpecLive == InitLive /\ [][Next]_vars /\ WF_vars(Transport)

-----------------------------------------------------------------------------
(* What the claims speak of *)

\* streamChat has returned and sendMessage has finished.
Returned == pc = "idle" /\ outcome = "returned"

\* The content of the trailing assistant message, empty if there is none.
TrailingAssistant(msgs) ==
    IF msgs # <<>> /\ msgs[Len(msgs)].role = "assistant"
    THEN msgs[Len(msgs)].content
    ELSE <<>>

\* The text a line is meant to contribute.
DeltaText(name) ==
    CASE name = "deltaA" -> <<"a">>
      [] name = "deltaE" -> <<"e">>
      [] OTHER           -> <<>>

\* The deltas of the well-formed frames before the sentinel, in order.
RECURSIVE ExpectedContent(_)
ExpectedContent(lines) ==
    IF lines = <<>> \/ Head(lines) = "done" THEN <<>>
    ELSE DeltaText(Head(lines)) \o ExpectedContent(Tail(lines))

LinesOf(lines) == {lines[i] : i \in 1..Len(lines)}

NoDeltaAfterSentinel(lines) ==
    \A i, j \in 1..Len(lines) :
        (i < j /\ lines[i] = "done") => DeltaText(lines[j]) = <<>>

\* C1: however the body is cut into chunks, a turn that runs to stream end
\* leaves the conversation that the same body delivered as one chunk leaves.
C1_ChunkBoundaryInvariance ==
    Returned => messages = WholeRun(newMessages, resp).msgs

C1_Witness ==
    /\ Returned
    /\ cutInside
    /\ respLines = <<"deltaA", "deltaE">>
    /\ TrailingAssistant(messages) = <<"a", "e">>

\* C2: at the end of a turn without transport failure the assistant content
\* is the concatenation of the deltas of the frames before the sentinel.
C2_ContentIsDeltasBeforeSentinel ==
    Returned => TrailingAssistant(messages) = ExpectedContent(respLines)

\* C3: once the main loop has interpreted a [DONE] line, no later step of
\* the turn changes the assistant content.
C3_SentinelPrecedence ==
    [][(pc = "read" /\ sentinelSeen) => assistantContent' = assistantContent]_vars

\* C4: once the main loop has interpreted a [DONE] line, no reader.read()
\* call is pending.
C4_NoReadAfterSentinel == ~(pc = "read" /\ sentinelSeen)

\* C5: after a turn has failed, the conversation is the one the turn began
\* with: what sendMessage found, then the user's message, and no assistant
\* message of the failed turn.
C5_ErrorRollback ==
    outcome = "threw" => messages = Append(preTurn, UserMessage(<<"q">>))

C5_Witness ==
    /\ outcome = "threw"
    /\ accepted > 0
    /\ Len(preTurn) = 2
    /\ messages = Append(preTurn, UserMessage(<<"q">>))

\* C6: a stream with one data frame that is not JSON among valid frames
\* ends the turn with the concatenation of the valid frames' deltas.
C6_MalformedFrameTolerance ==
    (/\ Returned
     /\ Cardinality({i \in 1..Len(respLines) : respLines[i] = "bad"}) = 1
     /\ NoDeltaAfterSentinel(respLines))
    => TrailingAssistant(messages) = ExpectedContent(respLines)

C6_Witness ==
    /\ Returned
    /\ respLines = <<"deltaA", "bad", "deltaA">>
    /\ TrailingAssistant(messages) = <<"a", "a">>

\* The descriptions of the errors a failed read gives.
ReadFailures == {Description(e) : e \in Rejections}

\* C7: a frame that fails JSON.parse never fails the turn: a turn whose
\* stream started fails only by a rejected read, and a turn that returns
\* has shown no toast and keeps the assistant message of its deltas.
C7_ParseFailureNeverFailsTurn ==
    /\ (outcome = "threw" /\ response.stream)
          => (Len(toasts) = 1 /\ toasts[1] \in ReadFailures)
    /\ Returned =>
          /\ toasts = <<>>
          /\ messages = IF accepted > 0
                        THEN Append(newMessages,
                                    [role |-> "assistant",
                                     content |-> assistantContent])
                        ELSE newMessages

C7_Witness ==
    /\ Returned
    /\ "bad" \in LinesOf(respLines)
    /\ accepted > 0
    /\ toasts = <<>>
    /\ TrailingAssistant(messages) = assistantContent

\* The lines that are neither comments nor blank.
RECURSIVE Significant(_)
Significant(lines) ==
    IF lines = <<>> THEN <<>>
    ELSE (IF Head(lines) \in {"comment", "blank"} THEN <<>> ELSE <<Head(lines)>>)
         \o Significant(Tail(lines))

\* C8: a turn over a response with comment and blank lines, however it is
\* cut, leaves what a turn over the response without those lines leaves.
C8_CommentBlankTransparency ==
    Returned =>
        messages =
            WholeRun(newMessages,
                     WireBytes(Significant(respLines),
                               /\ stripLast
                               /\ respLines[Len(respLines)]
                                     \notin {"comment", "blank"})).msgs

C8_Witness ==
    /\ Returned
    /\ cutInside
    /\ {"comment", "blank", "deltaA"} \subseteq LinesOf(respLines)
    /\ TrailingAssistant(messages) = <<"a">>

\* C9: during a turn and at its return the conversation is the one the turn
\* began with, followed by one assistant message with the accumulated
\* content once a delta has been accepted, and by nothing before that.
C9_OneAssistantMessagePerTurn ==
    outcome \in {"pending", "returned"} =>
        messages = IF accepted > 0
                   THEN Append(newMessages,
                               [role |-> "assistant",
                                content |-> assistantContent])
                   ELSE newMessages

C9_Witness ==
    /\ pc = "read"
    /\ accepted = 2
    /\ Len(preTurn) = 0
    /\ Len(messages) = 2
    /\ messages[2] = [role |-> "assistant", content |-> <<"a", "a">>]

\* C10: a 429 is the rate-limit error and a 402 the quota error, whatever
\* the body holds.
C10_StatusClassification ==
    /\ response.status = 429 =>
          toasts = <<"Rate limit exceeded. Please wait a moment and try again.">>
    /\ response.status = 402 =>
          toasts = <<"AI usage limit reached. Please add credits to continue.">>

C10_Witness ==
    /\ response.status = 429
    /\ response.body = [json |-> TRUE, error |-> "slow down"]
    /\ outcome = "threw"
    /\ toasts = <<"Rate limit exceeded. Please wait a moment and try again.">>

\* C11: a response that is not ok and whose status is neither 429 nor 402
\* fails the turn with the body's "error" text when the body is JSON with a
\* non-empty "error", and with a generic fallback text in every other case:
\* a JSON body with no or an empty "error", or a body that is not JSON.
C11_OtherStatusMessage ==
    (response.status \notin {0, 200, 429, 402}) =>
        /\ outcome = "threw"
        /\ toasts = <<IF /\ response.body.json
                         /\ response.body.error \notin {"", "undefined"}
                      THEN response.body.error
                      ELSE IF response.body.json THEN "Failed to get response"
                      ELSE "Request failed">>

C11_Witness ==
    /\ response.status = 500
    /\ response.body = [json |-> FALSE, error |-> "undefined"]
    /\ toasts = <<"Request failed">>
    /\ Len(preTurn) = 2

\* fetch has resolved with a response that is not ok.
NotOk == response.status # 0 /\ response.status \notin 200..299

\* C12: when the response is not ok, the turn reads no chunk, notifies no
\* delta and appends no assistant message (neither while the request is
\* awaited nor after it), and it ends with exactly one error, the one its
\* status and body classify to.
C12_NoStreamingOnErrorStatus ==
    /\ pc = "fetch" =>
          /\ pos = 0
          /\ notifications = <<>>
          /\ messages = newMessages
    /\ NotOk =>
          /\ pc = "idle"
          /\ outcome = "threw"
          /\ pos = 0
          /\ accepted = 0
          /\ notifications = <<>>
          /\ assistantContent = <<>>
          /\ messages = newMessages
          /\ toasts = <<StatusError(response.status, response.body)>>

C12_Witness ==
    /\ NotOk
    /\ response.status = 429
    /\ Len(newMessages) = 3
    /\ messages = newMessages
    /\ messages[2].role = "assistant"
    /\ Len(toasts) = 1

\* The response has no [DONE] line.
NoSentinel == "done" \notin LinesOf(respLines)

\* The conversation of the turn had the same lines, each terminated, been
\* followed by a [DONE] line.
WithSentinel ==
    WholeRun(newMessages, WireBytes(Append(respLines, "done"), FALSE)).msgs

\* C13: a stream that ends with no [DONE] line completes the turn as one
\* that ends with it: the missing sentinel is no error (the only error of
\* such a turn is a rejected read), nothing is rolled back, and the
\* conversation at return is the one accumulated, the same as if a [DONE]
\* line had followed the last frame.
C13_EndWithoutSentinel ==
    (pc = "idle" /\ response.stream /\ NoSentinel) =>
        /\ outcome = "threw" => toasts \in {<<f>> : f \in ReadFailures}
        /\ outcome = "returned" =>
              /\ toasts = <<>>
              /\ messages = WithSentinel
              /\ TrailingAssistant(messages) = assistantContent
              /\ assistantContent = ExpectedContent(respLines)

C13_Witness ==
    /\ Returned
    /\ NoSentinel
    /\ respLines = <<"deltaA", "deltaE">>
    /\ stripLast
    /\ toasts = <<>>
    /\ TrailingAssistant(messages) = <<"a", "e">>

\* The concatenation of the first n deltas notified in this turn.
RECURSIVE DeltasUpTo(_)
DeltasUpTo(n) ==
    IF n = 0 THEN <<>> ELSE DeltasUpTo(n - 1) \o notifications[n].delta

\* C14: each accepted delta gives exactly one notification (one setMessages
\* call), and the conversation it gives is the whole conversation: the
\* messages the turn started from (the user's message last), unchanged and
\* in order, followed by exactly one assistant message whose content is the
\* concatenation of every delta accepted so far, not the latest delta only.
C14_OneFullNotificationPerDelta ==
    /\ Len(notifications) = accepted
    /\ \A i \in 1..Len(notifications) :
          /\ notifications[i].delta # <<>>
          /\ notifications[i].msgs =
                Append(newMessages,
                       [role |-> "assistant", content |-> DeltasUpTo(i)])
    /\ assistantContent = DeltasUpTo(Len(notifications))
    /\ (Returned /\ NoSentinel) =>
          DeltasUpTo(Len(notifications)) = ExpectedContent(respLines)

C14_Witness ==
    /\ pc = "read"
    /\ Len(newMessages) = 1
    /\ Len(notifications) = 2
    /\ notifications[1].msgs =
          Append(newMessages, [role |-> "assistant", content |-> <<"a">>])
    /\ notifications[2].msgs =
          Append(newMessages, [role |-> "assistant", content |-> <<"a", "a">>])
    /\ messages = notifications[2].msgs

IsProperPrefix(s, t) == Len(s) < Len(t) /\ SubSeq(t, 1, Len(s)) = s

\* The assistant content the i-th notification of this turn showed.
Notified(i) == TrailingAssistant(notifications[i].msgs)

\* C15: within a turn the content only grows: of two consecutive
\* notifications the earlier content is a proper prefix of the later; while
\* the turn streams and after it returned the content shown is the one
\* last notified, and nothing but the one rollback of a failed turn takes
\* notified content away.
C15_ContentOnlyGrows ==
    /\ \A i \in 1..(Len(notifications) - 1) :
          IsProperPrefix(Notified(i), Notified(i + 1))
    /\ (notifications # <<>> /\ outcome \in {"pending", "returned"}) =>
          TrailingAssistant(messages) = Notified(Len(notifications))
    /\ (notifications # <<>> /\ outcome = "threw") =>
          /\ messages = newMessages
          /\ Len(toasts) = 1

C15_Witness ==
    /\ Returned
    /\ Len(notifications) = 2
    /\ Notified(1) = <<"a">>
    /\ Notified(2) = <<"a", "e">>
    /\ TrailingAssistant(messages) = <<"a", "e">>

\* The step in which streamChat gets done, flushes and returns.
ReturnStep == pc = "read" /\ pc' = "idle" /\ outcome' = "returned"

\* C16: when a turn completes, the buffer of text not yet interpreted
\* (textBuffer) is empty, and text left in the buffer behind an interpreted
\* [DONE] line adds nothing to the assistant content when the stream ends.
C16_ResidualDiscarded ==
    [][ReturnStep =>
          /\ textBuffer' = <<>>
          /\ sentinelSeen => assistantContent' = assistantContent]_vars

\* The turn's stream has started and the turn has failed.
StreamFailed == response.stream /\ outcome = "threw"

\* C17: a read that rejects after the stream has started gives exactly one
\* error and ends the turn: in the failing step and after it no chunk is
\* read, the final flush does not run (the content and the buffer stay as
\* the last chunk left them) and no delta is notified.
C17_ReadFailureAborts ==
    [][StreamFailed' =>
          /\ pc' = "idle"
          /\ toasts' \in {<<f>> : f \in ReadFailures}
          /\ pos' = pos
          /\ textBuffer' = textBuffer
          /\ assistantContent' = assistantContent
          /\ notifications' = notifications
          /\ messages' = newMessages]_vars

C17_Witness ==
    /\ StreamFailed
    /\ toasts = <<"network error">>
    /\ respLines = <<"deltaA", "deltaA">>
    /\ stripLast
    /\ pos = Len(resp)
    /\ accepted = 1
    /\ StartsWithData(textBuffer)

\* The turn is Completed (its [DONE] line was interpreted, or streamChat
\* returned at the end of the stream) or Errored (the catch has run).
Terminal == sentinelSeen \/ outcome \in {"returned", "threw"}

\* The step does not start a new turn.
SameTurn == ~(pc = "idle" /\ pc' = "fetch")

\* C18: once a turn is Completed or Errored no later step of the turn
\* appends a message, changes the assistant content or raises an error.
C18_TerminalStatesAreFinal ==
    [][(Terminal /\ SameTurn) =>
          /\ messages' = messages
          /\ assistantContent' = assistantContent
          /\ toasts' = toasts]_vars

\* A step that aborts the pending read and leaves the turn not finalized:
\* streamChat is left with neither its return nor an error.
CancelStep ==
    /\ pc = "read"
    /\ pc' = "idle"
    /\ outcome' = "pending"
    /\ toasts' = toasts

\* C19: while a chunk read is pending (the first included), a cancellation
\* can abort it: the program has a step that leaves the read and releases
\* the stream with the turn not finalized.
C19_CancellationAborts == (pc = "read") => ENABLED (Next /\ CancelStep)

\* The deltas of all the frames of these lines, in order.
RECURSIVE AllDeltas(_)
AllDeltas(lines) ==
    IF lines = <<>> THEN <<>>
    ELSE DeltaText(Head(lines)) \o AllDeltas(Tail(lines))

\* The delta lines of the response whose terminator is within its first p
\* bytes.
TerminatedDeltas(p) ==
    {i \in 1..Len(respLines) :
        /\ DeltaText(respLines[i]) # <<>>
        /\ ~(stripLast /\ i = Len(respLines))
        /\ Len(WireBytes(SubSeq(respLines, 1, i), FALSE)) <= p}

IsPrefix(s, t) == Len(s) <= Len(t) /\ SubSeq(t, 1, Len(s)) = s

\* C20: no line is emitted twice as a delta: main loop and final flush
\* together take each delta line of the response at most once, in order
\* (at return exactly once, the lines behind a [DONE] line included), and
\* the final flush runs only when the reader has reported done: before
\* that only lines whose terminator has arrived have contributed.
C20_NoLineEmittedTwice ==
    response.stream =>
        /\ IsPrefix(assistantContent, AllDeltas(respLines))
        /\ Len(notifications) = Len(assistantContent)
        /\ ~Returned => Len(notifications) <= Cardinality(TerminatedDeltas(pos))
        /\ Returned => assistantContent = AllDeltas(respLines)

C20_Witness ==
    /\ Returned
    /\ respLines = <<"deltaA", "deltaA">>
    /\ stripLast
    /\ cutInside
    /\ textBuffer = LineBody("deltaA")
    /\ Len(notifications) = 2

\* The buffer begins with a complete line whose payload does not parse.
BadLineBuffered ==
    /\ Len(textBuffer) >= Len(LineBytes("bad"))
    /\ SubSeq(textBuffer, 1, Len(LineBytes("bad"))) = LineBytes("bad")

\* C21: a data line whose payload fails to parse is dropped when it is
\* interpreted: once a pass is over it is no longer in the buffer (so no
\* later pass interprets it again), and the delta lines that had arrived
\* behind it have been notified in that pass, without waiting for another
\* chunk or for the end of the stream.
C21_MalformedLineDropped ==
    (pc = "read" /\ NoSentinel) =>
        /\ ~BadLineBuffered
        /\ Len(notifications) = Cardinality(TerminatedDeltas(pos))

\* C22: when a pass of the main loop is over and the next read is awaited,
\* the buffer holds no newline: every complete line received so far has
\* been taken out of it and only the unterminated remainder is left.
C22_NoNewlineBetweenReads == (pc = "read") => IndexOfNewline(textBuffer) = 0

\* The frames that parse and carry no content, or the empty string.
Contentless == {"empty", "nocontent"}

RECURSIVE WithoutContentless(_)
WithoutContentless(lines) ==
    IF lines = <<>> THEN <<>>
    ELSE (IF Head(lines) \in Contentless THEN <<>> ELSE <<Head(lines)>>)
         \o WithoutContentless(Tail(lines))

\* C23: a data frame that parses and has no content field, or the empty
\* string as content, gives no delta: no notification carries an empty
\* delta, a response of such frames alone notifies nothing, appends no
\* assistant message and raises no error of its own, and a turn over any
\* response leaves what a turn over the response without these frames
\* leaves.
C23_ContentlessFrameIgnored ==
    response.stream =>
        /\ \A i \in 1..Len(notifications) : notifications[i].delta # <<>>
        /\ (respLines # <<>> /\ LinesOf(respLines) \subseteq Contentless) =>
              /\ notifications = <<>>
              /\ assistantContent = <<>>
              /\ messages = newMessages
              /\ toasts = <<>> \/ toasts \in {<<f>> : f \in ReadFailures}
              /\ Returned => toasts = <<>>
        /\ Returned =>
              messages =
                  WholeRun(newMessages,
                           WireBytes(WithoutContentless(respLines),
                                     /\ stripLast
                                     /\ respLines[Len(respLines)]
                                           \notin Contentless)).msgs

C23_Witness ==
    /\ Returned
    /\ respLines = <<"deltaA", "empty", "nocontent">>
    /\ cutInside
    /\ notifications # <<>>
    /\ messages = notifications[1].msgs
    /\ toasts = <<>>

\* The last notification of the turn.
LastNotification == notifications[Len(notifications)]

\* C24: when the stream ends with a line that has no terminator, the final
\* flush interprets the text left in the buffer as a line: the conversation
\* at return is the one for the same lines with the last one terminated,
\* and a well-formed last frame's delta is the last one appended.
C24_UnterminatedLastLineFlushed ==
    (Returned /\ stripLast) =>
        /\ messages = WholeRun(newMessages, WireBytes(respLines, FALSE)).msgs
        /\ DeltaText(respLines[Len(respLines)]) # <<>> =>
              /\ notifications # <<>>
              /\ LastNotification.delta = DeltaText(respLines[Len(respLines)])
              /\ TrailingAssistant(messages) = AllDeltas(respLines)

C24_Witness ==
    /\ Returned
    /\ stripLast
    /\ respLines = <<"comment", "deltaE">>
    /\ cutInside
    /\ textBuffer = <<"data: ", "{", "e", "}">>
    /\ TrailingAssistant(messages) = <<"e">>

\* msgs2 is msgs1 with one message appended at its end.
AppendsOne(msgs1, msgs2) ==
    Len(msgs2) = Len(msgs1) + 1 /\ SubSeq(msgs2, 1, Len(msgs1)) = msgs1

\* msgs2 is msgs1 with the content of its last message replaced.
ReplacesLastContent(msgs1, msgs2) ==
    /\ msgs1 # <<>>
    /\ Len(msgs2) = Len(msgs1)
    /\ \A i \in 1..(Len(msgs1) - 1) : msgs2[i] = msgs1[i]
    /\ msgs2[Len(msgs2)].role = msgs1[Len(msgs1)].role

\* C25: a step of streamChat changes the conversation only by appending one
\* message at its end or by replacing the content of its last message, and
\* after every step the messages the turn began with, the user's message of
\* this turn included, are the first messages of the conversation: same
\* role, same content, same place.
C25_OnlyTheTailChanges ==
    [][/\ (pc = "read" /\ outcome' # "threw") =>
             \/ messages' = messages
             \/ AppendsOne(messages, messages')
             \/ ReplacesLastContent(messages, messages')
       /\ /\ Len(messages') >= Len(newMessages')
          /\ SubSeq(messages', 1, Len(newMessages')) = newMessages'
          /\ (newMessages' # <<>>) =>
                /\ newMessages'[Len(newMessages')].role = "user"
                /\ SubSeq(newMessages', 1, Len(newMessages') - 1) = preTurn']_vars

C25_Witness ==
    /\ pc = "read"
    /\ Len(preTurn) = 2
    /\ Len(messages) = 4
    /\ messages[3] = newMessages[3]
    /\ messages[4] = [role |-> "assistant", content |-> <<"a">>]
    /\ preTurn[2].role = "assistant"

\* A turn is in flight: sendMessage awaits fetch or a read.
InFlight == pc \in {"fetch", "read"}

\* C26: at most one turn is in flight. isLoading is true exactly from the
\* start of a turn until its streamChat call has returned or thrown, and
\* while it is true no step starts a turn: no user message is appended, no
\* request is started, and the notifications of the running turn are only
\* added to, by its own stream.
C26_OneTurnInFlight ==
    [][/\ isLoading' = InFlight'
       /\ isLoading =>
             /\ newMessages' = newMessages
             /\ preTurn' = preTurn
             /\ turnsLeft' = turnsLeft
             /\ pc' # "fetch"
             /\ respLines' = respLines \/ pc = "fetch"
             /\ IsPrefix(notifications, notifications')
             /\ Len(messages') <= Len(newMessages) + 1]_vars

C26_Witness ==
    /\ isLoading
    /\ pc = "read"
    /\ turnsLeft > 0
    /\ ENABLED (\E input \in Inputs : SendMessage(input))
    /\ notifications # <<>>
    /\ pos < Len(resp)

\* C27: every turn clears the loading flag: when the transport settles what
\* the turn awaits, a turn that has set isLoading comes to a state where it
\* is false again, and it is false whenever streamChat has returned or has
\* thrown (status not ok, no body, rejected fetch or read), so that a new
\* turn can be started.
C27_LoadingFlagCleared ==
    /\ isLoading ~> (~isLoading /\ pc = "idle")
    /\ [](outcome \in {"returned", "threw"} => ~isLoading /\ pc = "idle")

C27_Witness ==
    /\ ~isLoading
    /\ outcome = "threw"
    /\ toasts = <<"No response body">>
    /\ Len(preTurn) = 1
    /\ Len(messages) = 2

\* C28: the step in which a turn fails leaves the conversation that existed
\* when sendMessage was called, message for message, followed by the user's
\* message of the failed turn: it takes away what the turn's stream had
\* added behind it, the partial assistant message, and nothing else, and
\* the conversation stays so while the turn is the last one.
C28_RollbackKeepsUserMessage ==
    [][outcome' = "threw" =>
          /\ preTurn' = preTurn
          /\ Len(messages') = Len(preTurn) + 1
          /\ \A i \in 1..Len(preTurn) : messages'[i] = preTurn[i]
          /\ messages'[Len(messages')] = UserMessage(<<"q">>)
          /\ IsPrefix(messages', messages)
          /\ Len(messages) <= Len(messages') + 1]_vars

C28_Witness ==
    /\ outcome = "threw"
    /\ response.stream
    /\ Len(notifications) = 1
    /\ Len(messages) = 3
    /\ messages[2] = [role |-> "assistant", content |-> <<"a">>]
    /\ messages[3] = UserMessage(<<"q">>)

\* C29: the trailing assistant message of a turn never carries text of an
\* earlier turn. Until the turn's first delta the user's message of this
\* turn is last; the first delta appends a new assistant message behind it
\* that holds that delta alone; and at every point of the turn the trailing
\* assistant content is the concatenation of this turn's accepted deltas.
C29_TrailingAssistantIsTurnLocal ==
    (outcome \in {"pending", "returned"}) =>
        /\ messages[Len(newMessages)] = UserMessage(<<"q">>)
        /\ notifications = <<>> =>
              /\ messages[Len(messages)].role = "user"
              /\ Len(messages) = Len(newMessages)
        /\ notifications # <<>> =>
              /\ Len(notifications[1].msgs) = Len(newMessages) + 1
              /\ Notified(1) = notifications[1].delta
              /\ Len(messages) = Len(newMessages) + 1
              /\ TrailingAssistant(messages) = DeltasUpTo(Len(notifications))

C29_Witness ==
    /\ Returned
    /\ Len(messages) = 4
    /\ messages[2] = [role |-> "assistant", content |-> <<"a">>]
    /\ messages[4] = [role |-> "assistant", content |-> <<"e">>]
    /\ Len(notifications) = 1

\* fetch has resolved with an ok response that has no body.
OkWithoutBody == response.status \in 200..299 /\ ~response.stream

\* C30: an ok response with no body fails the turn before any chunk is
\* read: one error is shown, no delta is notified and no assistant message
\* appended, and the conversation is the one the turn started with, the
\* user's message last.
C30_MissingBodyFailsTurn ==
    OkWithoutBody =>
        /\ pc = "idle"
        /\ ~isLoading
        /\ outcome = "threw"
        /\ toasts = <<"No response body">>
        /\ pos = 0
        /\ resp = <<>>
        /\ notifications = <<>>
        /\ messages = Append(preTurn, UserMessage(<<"q">>))

C30_Witness ==
    /\ OkWithoutBody
    /\ outcome = "threw"
    /\ Len(preTurn) = 2
    /\ preTurn[2].role = "assistant"
    /\ Len(messages) = 3
    /\ toasts = <<"No response body">>

=============================================================================
